---- MODULE Spec2Model ----
(***************************************************************************)
(* Model of mob_proto_editor_simple.py (SimpleMobEditor): the proto table  *)
(* loader with its encoding fallback chain, name resolution, mass edit,    *)
(* the name-file repair and the save with its timestamped backup.          *)
(*                                                                         *)
(* Text is a sequence of Unicode code points, a file is a sequence of      *)
(* bytes (0..255).  Python's 0-based indices appear 1-based here.          *)
(***************************************************************************)
EXTENDS Integers, Sequences, FiniteSets, TLC

\* ------------------------------------------------------------------ bounds
\* seconds the clock may advance
MaxClock == 1
\* handler invocations in one run
MaxOps == 3
\* longest byte string the resolver specification draws
MaxBytes == 4
\* rows of the tables the name-resolution specification draws
MaxRows == 3
\* runs of setup_table in the name-resolution specification
MaxSetups == 2
\* rows of the tables the mass-edit specification draws
MaxMassRows == 2

\* ------------------------------------------------------- characters, text
TAB == 9
LF == 10
CR == 13
REPLACEMENT == 65533

\* column names and literals of the source, as code points
NAME == <<78, 65, 77, 69>>
VNUM == <<86, 78, 85, 77>>
EXP == <<69, 88, 80>>
MobPrefix == <<77, 111, 98, 32>>
Q2 == <<63, 63>>
Q3 == <<63, 63, 63>>
Q4 == <<63, 63, 63, 63>>

\* what str.strip() and the truth test of line.strip() treat as whitespace
IsSpace(c) ==
    \/ c \in 9..13
    \/ c \in 28..32
    \/ c \in {133, 160, 5760, 8232, 8233, 8239, 8287, 12288}
    \/ c \in 8192..8202

RECURSIVE LStrip(_)
LStrip(s) ==
    IF s = <<>> THEN <<>>
    ELSE IF IsSpace(Head(s)) THEN LStrip(Tail(s))
    ELSE s

RECURSIVE RStrip(_)
RStrip(s) ==
    IF s = <<>> THEN <<>>
    ELSE IF IsSpace(s[Len(s)]) THEN RStrip(SubSeq(s, 1, Len(s) - 1))
    ELSE s

\* str.strip()
Strip(s) == RStrip(LStrip(s))

\* str.split(sep) for a one-character separator: always at least one field
RECURSIVE SplitOn(_, _)
SplitOn(s, sep) ==
    IF \E i \in 1..Len(s) : s[i] = sep
    THEN LET i == CHOOSE j \in 1..Len(s) :
                    s[j] = sep /\ \A k \in 1..(j - 1) : s[k] # sep
         IN  <<SubSeq(s, 1, i - 1)>> \o SplitOn(SubSeq(s, i + 1, Len(s)), sep)
    ELSE <<s>>

\* sep.join(fields)
RECURSIVE JoinWith(_, _)
JoinWith(fields, sep) ==
    IF fields = <<>> THEN <<>>
    ELSE IF Len(fields) = 1 THEN fields[1]
    ELSE fields[1] \o <<sep>> \o JoinWith(Tail(fields), sep)

\* f.readlines() of a text-mode file: universal newlines, each line keeps
\* its terminator (translated to LF); no line for an empty tail
RECURSIVE ReadLines(_)
ReadLines(s) ==
    IF s = <<>> THEN <<>>
    ELSE IF \E i \in 1..Len(s) : s[i] \in {LF, CR}
    THEN LET i == CHOOSE j \in 1..Len(s) :
                    s[j] \in {LF, CR} /\ \A k \in 1..(j - 1) : s[k] \notin {LF, CR}
             n == IF s[i] = CR /\ i < Len(s) /\ s[i + 1] = LF THEN i + 1 ELSE i
         IN  <<SubSeq(s, 1, i - 1) \o <<LF>> >> \o ReadLines(SubSeq(s, n + 1, Len(s)))
    ELSE <<s>>

\* [line.strip() for line in lines if line.strip()]
RECURSIVE StripNonBlank(_)
StripNonBlank(lines) ==
    IF lines = <<>> THEN <<>>
    ELSE IF Strip(Head(lines)) = <<>> THEN StripNonBlank(Tail(lines))
    ELSE <<Strip(Head(lines))>> \o StripNonBlank(Tail(lines))

\* str.replace(old, new), old non-empty: leftmost, non-overlapping
RECURSIVE Replace(_, _, _)
Replace(s, old, new) ==
    IF Len(s) < Len(old) THEN s
    ELSE IF SubSeq(s, 1, Len(old)) = old
    THEN new \o Replace(SubSeq(s, Len(old) + 1, Len(s)), old, new)
    ELSE <<Head(s)>> \o Replace(Tail(s), old, new)

\* ------------------------------------------------------------------ codecs
\* A decoder yields the text, or DecodeError where Python raises
\* UnicodeDecodeError.
DecodeError == <<-1>>

\* c followed by the decoding of the rest, or the rest's failure
Cons(c, rest) == IF rest = DecodeError THEN DecodeError ELSE <<c>> \o rest

IsCont(b) == b \in 128..191

\* bytes.decode('utf-8'), strict: shortest form only, no surrogates
RECURSIVE DecodeUtf8(_)
DecodeUtf8(b) ==
    IF b = <<>> THEN <<>>
    ELSE LET c == b[1] n == Len(b) IN
         IF c < 128 THEN Cons(c, DecodeUtf8(Tail(b)))
         ELSE IF c \in 194..223 THEN
              IF n >= 2 /\ IsCont(b[2])
              THEN Cons((c - 192) * 64 + (b[2] - 128), DecodeUtf8(SubSeq(b, 3, n)))
              ELSE DecodeError
         ELSE IF c \in 224..239 THEN
              IF /\ n >= 3
                 /\ IsCont(b[2])
                 /\ IsCont(b[3])
                 /\ (c = 224 => b[2] >= 160)
                 /\ (c = 237 => b[2] <= 159)
              THEN Cons((c - 224) * 4096 + (b[2] - 128) * 64 + (b[3] - 128),
                        DecodeUtf8(SubSeq(b, 4, n)))
              ELSE DecodeError
         ELSE IF c \in 240..244 THEN
              IF /\ n >= 4
                 /\ IsCont(b[2])
                 /\ IsCont(b[3])
                 /\ IsCont(b[4])
                 /\ (c = 240 => b[2] >= 144)
                 /\ (c = 244 => b[2] <= 143)
              THEN Cons((c - 240) * 262144 + (b[2] - 128) * 4096
                            + (b[3] - 128) * 64 + (b[4] - 128),
                        DecodeUtf8(SubSeq(b, 5, n)))
              ELSE DecodeError
         ELSE DecodeError

\* bytes.decode('utf-8-sig'): one leading EF BB BF is dropped
DecodeUtf8Sig(b) ==
    IF Len(b) >= 3 /\ SubSeq(b, 1, 3) = <<239, 187, 191>>
    THEN DecodeUtf8(SubSeq(b, 4, Len(b)))
    ELSE DecodeUtf8(b)

\* bytes.decode('latin1') / 'iso-8859-1': byte n is code point n, never fails
DecodeLatin1(b) == b

\* cp1252 differs from latin1 on 0x80..0x9F; five of those bytes are undefined
Cp1252High ==
    <<8364, -1, 8218, 402, 8222, 8230, 8224, 8225,
      710, 8240, 352, 8249, 338, -1, 381, -1,
      -1, 8216, 8217, 8220, 8221, 8226, 8211, 8212,
      732, 8482, 353, 8250, 339, -1, 382, 376>>

RECURSIVE DecodeCp1252(_)
DecodeCp1252(b) ==
    IF b = <<>> THEN <<>>
    ELSE LET c == b[1] IN
         IF c \in 128..159 THEN
              IF Cp1252High[c - 127] = -1 THEN DecodeError
              ELSE Cons(Cp1252High[c - 127], DecodeCp1252(Tail(b)))
         ELSE Cons(c, DecodeCp1252(Tail(b)))

\* str.encode('utf-8') (no surrogate occurs in a decoded text)
RECURSIVE EncodeUtf8(_)
EncodeUtf8(t) ==
    IF t = <<>> THEN <<>>
    ELSE LET c == t[1] IN
         (IF c < 128 THEN <<c>>
          ELSE IF c < 2048 THEN <<192 + (c \div 64), 128 + (c % 64)>>
          ELSE IF c < 65536
               THEN <<224 + (c \div 4096), 128 + ((c \div 64) % 64), 128 + (c % 64)>>
          ELSE <<240 + (c \div 262144), 128 + ((c \div 4096) % 64),
                 128 + ((c \div 64) % 64), 128 + (c % 64)>>)
         \o EncodeUtf8(Tail(t))

\* Python's cp949 codec, tabulated on the two-byte sequences that occur in the
\* model's files: (lead, trail, code point, or -1 where unassigned).  A pair
\* outside the table that passes the range test below stops TLC.
Cp949Entries ==
    { <<132, 114, 44827>>, <<162, 234, -1>>, <<164, 65, 51678>>, <<164, 164, 12596>>,
      <<164, 187, 12619>>, <<164, 191, 12623>>, <<164, 195, 12627>>, <<164, 199, 12631>>,
      <<164, 209, 12641>>, <<164, 228, 12660>>, <<164, 239, 12671>>, <<187, 65, 54011>>,
      <<187, 164, 48753>>, <<187, 187, 48867>>, <<187, 191, 48897>>, <<187, 195, 48921>>,
      <<187, 199, 48960>>, <<187, 209, 49100>>, <<187, 228, 49313>>, <<187, 239, 49340>>,
      <<191, 65, 54430>>, <<191, 164, 50648>>, <<191, 187, 50704>>, <<191, 191, 50716>>,
      <<191, 195, 50732>>, <<191, 199, 50739>>, <<191, 209, 50768>>, <<191, 228, 50836>>,
      <<191, 239, 50872>>, <<194, 164, 51674>>, <<195, 65, 54845>>, <<195, 131, 54916>>,
      <<195, 164, 52292>>, <<195, 187, 52397>>, <<195, 191, 52412>>, <<195, 195, 52425>>,
      <<195, 199, 52460>>, <<195, 209, 52509>>, <<195, 228, 52645>>, <<195, 239, 52729>>,
      <<198, 146, -1>>, <<199, 164, 54340>>, <<199, 187, 54504>>, <<199, 191, 54523>>,
      <<199, 195, 54540>>, <<199, 199, 54588>>, <<199, 209, 54620>>, <<199, 228, 54729>>,
      <<199, 239, 54764>>, <<209, 164, 26827>>, <<209, 187, 32186>>, <<209, 191, 32908>>,
      <<209, 195, 36215>>, <<209, 199, 39249>>, <<209, 209, 37329>>, <<209, 228, 63766>>,
      <<209, 239, 63774>>, <<228, 164, 29978>>, <<228, 187, 39187>>, <<228, 191, 23731>>,
      <<228, 195, 24853>>, <<228, 199, 37122>>, <<228, 209, 30524>>, <<228, 228, 29390>>,
      <<228, 239, 22467>>, <<236, 177, 63970>>, <<239, 164, 30008>>, <<239, 167, 31564>>,
      <<239, 187, 30308>>, <<239, 191, 21344>>, <<239, 195, 28857>>, <<239, 199, 40670>>,
      <<239, 209, 22979>>, <<239, 228, 28136>>, <<239, 239, 31243>> }


\* trail bytes that can follow a lead byte at all
Cp949Trail(b) == b \in 65..90 \/ b \in 97..122 \/ b \in 129..254

\* the code point of a cp949 two-byte sequence, -1 where the codec has none
Cp949Pair(a, b) ==
    IF a \notin 129..254 \/ ~Cp949Trail(b) THEN -1
    ELSE IF a >= 199 /\ b < 161 THEN -1
    ELSE (CHOOSE e \in Cp949Entries : e[1] = a /\ e[2] = b)[3]

\* bytes.decode('cp949')
RECURSIVE DecodeCp949(_)
DecodeCp949(b) ==
    IF b = <<>> THEN <<>>
    ELSE IF b[1] < 128 THEN Cons(b[1], DecodeCp949(Tail(b)))
    ELSE IF Len(b) < 2 THEN DecodeError
    ELSE LET c == Cp949Pair(b[1], b[2]) IN
         IF c = -1 THEN DecodeError ELSE Cons(c, DecodeCp949(SubSeq(b, 3, Len(b))))

\* bytes.decode('euc-kr') accepts what cp949 accepts when every two-byte
\* sequence lies in the KS X 1001 plane (both bytes in A1..FE); A4 D4
\* opens an eight-byte make-up sequence there and is rejected on its own
RECURSIVE InEucKr(_)
InEucKr(b) ==
    IF b = <<>> THEN TRUE
    ELSE IF b[1] < 128 THEN InEucKr(Tail(b))
    ELSE /\ Len(b) >= 2
         /\ b[1] >= 161
         /\ b[2] >= 161
         /\ ~(b[1] = 164 /\ b[2] = 212)
         /\ InEucKr(SubSeq(b, 3, Len(b)))

Decode(encoding, b) ==
    CASE encoding = "cp949" -> DecodeCp949(b)
      [] encoding = "euc-kr" -> IF InEucKr(b) THEN DecodeCp949(b) ELSE DecodeError
      [] encoding = "utf-8" -> DecodeUtf8(b)
      [] encoding = "utf-8-sig" -> DecodeUtf8Sig(b)
      [] encoding = "latin1" -> DecodeLatin1(b)
      [] encoding = "iso-8859-1" -> DecodeLatin1(b)
      [] encoding = "cp1252" -> DecodeCp1252(b)

\* bytes.decode('utf-8', errors='replace'): every maximal ill-formed
\* subsequence becomes one U+FFFD
Utf8Second(c, b) ==
    /\ IsCont(b)
    /\ (c = 224 => b >= 160)
    /\ (c = 237 => b <= 159)
    /\ (c = 240 => b >= 144)
    /\ (c = 244 => b <= 143)

Utf8Need(c) ==
    IF c < 128 THEN 1
    ELSE IF c \in 194..223 THEN 2
    ELSE IF c \in 224..239 THEN 3
    ELSE IF c \in 240..244 THEN 4
    ELSE 0

\* how many bytes of b form a well-formed prefix of one encoded character
Utf8Prefix(b) ==
    LET need == Utf8Need(b[1]) IN
    IF need = 0 THEN 0
    ELSE IF need = 1 \/ Len(b) < 2 \/ ~Utf8Second(b[1], b[2]) THEN 1
    ELSE IF need = 2 \/ Len(b) < 3 \/ ~IsCont(b[3]) THEN 2
    ELSE IF need = 3 \/ Len(b) < 4 \/ ~IsCont(b[4]) THEN 3
    ELSE 4

RECURSIVE DecodeReplace(_)
DecodeReplace(b) ==
    IF b = <<>> THEN <<>>
    ELSE LET need == Utf8Need(b[1])
             got == Utf8Prefix(b)
         IN  IF need > 0 /\ got = need
             THEN DecodeUtf8(SubSeq(b, 1, need)) \o DecodeReplace(SubSeq(b, need + 1, Len(b)))
             ELSE <<REPLACEMENT>>
                  \o DecodeReplace(SubSeq(b, (IF got = 0 THEN 1 ELSE got) + 1, Len(b)))

\* ------------------------------------------------------- encoding resolver
\* encodings_to_try of load_file_fast, in order
\* a variant that tries utf-8 first, to test the sensitivity of
\* ResolverFirstSuccess
Utf8First == <<"utf-8", "cp949", "euc-kr", "utf-8-sig", "latin1", "cp1252">>

ProtoEncodings == <<"cp949", "euc-kr", "utf-8", "utf-8-sig", "latin1", "cp1252">>

\* encodings_to_try of load_mob_names and fix_mob_names_file, in order
NameEncodings == <<"cp1252", "iso-8859-1", "utf-8", "cp949", "latin1">>

\* the try/except loop over the candidates from the i-th on: the first one
\* that decodes b without error and the text it gives; encoding "" if none
RECURSIVE TryEncodings(_, _, _)
TryEncodings(encodings, i, b) ==
    IF i > Len(encodings) THEN [encoding |-> "", text |-> DecodeError]
    ELSE LET text == Decode(encodings[i], b) IN
         IF text # DecodeError THEN [encoding |-> encodings[i], text |-> text]
         ELSE TryEncodings(encodings, i + 1, b)

\* The loop over encodings_to_try and the binary fallback of load_file_fast:
\* the encoding recorded ("" when the fallback ran, which records none), the
\* decoded text and the stripped non-blank lines.
Fallback(text) ==
    [encoding |-> "", text |-> text, lines |-> StripNonBlank(SplitOn(text, LF))]

Resolved(r, b) ==
    IF r.encoding = "" THEN Fallback(DecodeReplace(b))
    ELSE [encoding |-> r.encoding, text |-> r.text,
          lines |-> StripNonBlank(ReadLines(r.text))]

ResolveEncoding(b) == Resolved(TryEncodings(ProtoEncodings, 1, b), b)

\* ------------------------------------------------------------ proto table
RECURSIVE PadRow(_, _)
PadRow(row, n) == IF Len(row) < n THEN PadRow(Append(row, <<>>), n) ELSE row

\* headers and data as load_file_fast parses them from the non-blank lines
ParseHeaders(lines) == SplitOn(lines[1], TAB)

ParseData(lines, hdrs) ==
    [i \in 1..(Len(lines) - 1) |-> PadRow(SplitOn(lines[i + 1], TAB), Len(hdrs))]

\* --------------------------------------------------------- name resolution
\* a variant that misses '????', to test the sensitivity of ResolvedPerRow
NarrowPlaceholders == {Q2, Q3}

Placeholders == {Q2, Q3, Q4}

\* get_mob_name: mob_names is a function from id text to name text
get_mob_name(mob_names, vnum, original_name) ==
    IF vnum \in DOMAIN mob_names THEN mob_names[vnum]
    ELSE IF original_name # <<>> /\ original_name \notin Placeholders THEN original_name
    ELSE MobPrefix \o vnum

\* a table cell that holds no item
NoItem == <<-1>>

\* the QTableWidget: rowCount, columnCount and the item texts
EmptyTable == [rowCount |-> 0, columnCount |-> 0, items |-> <<>>]

\* setRowCount / setColumnCount keep the items that stay in range
Resize(tbl, rows, cols) ==
    [rowCount |-> rows,
     columnCount |-> cols,
     items |-> [r \in 1..rows |-> [c \in 1..cols |->
                  IF r <= tbl.rowCount /\ c <= tbl.columnCount
                  THEN tbl.items[r][c] ELSE NoItem]]]

\* headers[col] for col == 1 raises IndexError under a one-column header:
\* the first row (1-based) where setup_table stops, 0 if it runs through
RaisingRow(hdrs, rows) ==
    IF Len(hdrs) < 2 /\ \E r \in 1..Len(rows) : Len(rows[r]) >= 2
    THEN CHOOSE r \in 1..Len(rows) :
            Len(rows[r]) >= 2 /\ \A q \in 1..(r - 1) : Len(rows[q]) < 2
    ELSE 0

HasNameColumn(hdrs) == Len(hdrs) >= 2 /\ hdrs[2] = NAME

\* a variant that stores the resolved name at position 0, to test the
\* sensitivity of SetupIdempotent
BadResolveRows(hdrs, rows, mob_names) ==
    IF HasNameColumn(hdrs)
    THEN [r \in 1..Len(rows) |->
            [rows[r] EXCEPT ![1] = get_mob_name(mob_names, rows[r][1], rows[r][2])]]
    ELSE rows

\* the rows as setup_table leaves self.data: position 1 (here 2) replaced by
\* the resolved name when the second header is NAME
ResolveRows(hdrs, rows, mob_names) ==
    IF HasNameColumn(hdrs)
    THEN [r \in 1..Len(rows) |->
            [rows[r] EXCEPT ![2] = get_mob_name(mob_names, rows[r][1], rows[r][2])]]
    ELSE rows

\* setup_table stopped at row stop (0: ran through): was cell (r, c) set
Reached(stop, r, c) == stop = 0 \/ r < stop \/ (r = stop /\ c = 1)

\* the rows new shown in the resized widget base
FillTable(new, base, stop) ==
    [data |-> new,
     raised |-> stop # 0,
     table |-> [base EXCEPT !.items =
                  [r \in 1..base.rowCount |-> [c \in 1..base.columnCount |->
                      IF Reached(stop, r, c) /\ c <= Len(new[r])
                      THEN new[r][c] ELSE base.items[r][c]]]]]

\* setup_table: the new self.data, the widget, and whether it raised.  An
\* item is set for every field at a column the widget has; when it raises,
\* the cells not yet reached keep what Resize left there.
setup_table(hdrs, rows, mob_names, tbl) ==
    FillTable(ResolveRows(hdrs, rows, mob_names),
              Resize(tbl, Len(rows), Len(hdrs)),
              RaisingRow(hdrs, rows))

\* -------------------------------------------------------------- name file
\* a file that does not exist
Absent == <<-2>>

\* the replace() chain of load_mob_names (lines 296-300), in order: every
\* pattern holds U+FFFD
NameFixes ==
    << <<<<REPLACEMENT>>, <<228>>>>, <<<<REPLACEMENT>>, <<246>>>>,
       <<<<REPLACEMENT>>, <<252>>>>, <<<<REPLACEMENT>>, <<196>>>>,
       <<<<REPLACEMENT>>, <<214>>>>, <<<<REPLACEMENT>>, <<220>>>>,
       <<<<REPLACEMENT>>, <<223>>>>, <<<<REPLACEMENT>>, <<233>>>>,
       <<<<REPLACEMENT>>, <<232>>>>,
       <<<<107, REPLACEMENT, 109, 112, 102, 101, 114>>, <<107, 228, 109, 112, 102, 101, 114>>>>,
       <<<<97, 110, 102, REPLACEMENT, 104, 114, 101, 114>>, <<97, 110, 102, 252, 104, 114, 101, 114>>>>,
       <<<<66, REPLACEMENT, 115, 101, 114>>, <<66, 246, 115, 101, 114>>>>,
       <<<<102, REPLACEMENT, 114>>, <<102, 252, 114>>>> >>

\* the four further replacements of fix_mob_names_file (lines 372-373)
MoreFixes ==
    << <<<<REPLACEMENT, 98, 101, 114>>, <<252, 98, 101, 114>>>>,
       <<<<103, 114, REPLACEMENT, REPLACEMENT, 101, 114>>, <<103, 114, 246, 223, 101, 114>>>>,
       <<<<119, REPLACEMENT, 116, 101, 110, 100>>, <<119, 252, 116, 101, 110, 100>>>>,
       <<<<115, 99, 104, REPLACEMENT, 110>>, <<115, 99, 104, 246, 110>>>> >>

RECURSIVE ApplyFixes(_, _)
ApplyFixes(s, fixes) ==
    IF fixes = <<>> THEN s
    ELSE ApplyFixes(Replace(s, fixes[1][1], fixes[1][2]), Tail(fixes))

\* the body of the line loop of load_mob_names: lines after the first, a
\* later line for the same id overwrites the earlier one
RECURSIVE ParseNames(_, _)
ParseNames(lines, m) ==
    IF lines = <<>> THEN m
    ELSE LET line == Head(lines)
             parts == SplitOn(Strip(line), TAB)
         IN  IF /\ Strip(line) # <<>>
                /\ \E i \in 1..Len(line) : line[i] = TAB
                /\ Len(parts) >= 2
             THEN ParseNames(Tail(lines),
                     (Strip(parts[1]) :> ApplyFixes(Strip(parts[2]), NameFixes)) @@ m)
             ELSE ParseNames(Tail(lines), m)

\* the encoding loop of load_mob_names from candidate i on: a candidate that
\* fails to decode is skipped, the loop ends once mob_names is non-empty
RECURSIVE LoadNamesFrom(_, _, _)
LoadNamesFrom(i, b, m) ==
    IF i > Len(NameEncodings) THEN m
    ELSE LET text == Decode(NameEncodings[i], b) IN
         IF text = DecodeError THEN LoadNamesFrom(i + 1, b, m)
         ELSE LET lines == ReadLines(text)
                  got == ParseNames(IF lines = <<>> THEN <<>> ELSE Tail(lines), m)
              IN  IF DOMAIN got # {} THEN got ELSE LoadNamesFrom(i + 1, b, got)

EmptyNames == [k \in {} |-> <<>>]

\* load_mob_names: a missing file leaves mob_names as it is
load_mob_names(b, m) == IF b = Absent THEN m ELSE LoadNamesFrom(1, b, m)

\* the text fix_mob_names_file writes back: every line of the first
\* decodable reading, with both replacement chains applied
RECURSIVE FixLines(_)
FixLines(lines) ==
    IF lines = <<>> THEN <<>>
    ELSE ApplyFixes(ApplyFixes(Head(lines), NameFixes), MoreFixes) \o FixLines(Tail(lines))

\* the bytes of mob_names.txt after the repair; DecodeError when no
\* candidate decodes it (the repair then stops before writing)
FixedNamesFile(b) ==
    LET r == TryEncodings(NameEncodings, 1, b) IN
    IF r.encoding = "" THEN DecodeError
    ELSE EncodeUtf8(FixLines(ReadLines(r.text)))

\* ------------------------------------------------------------------- save
\* item.text(), or '' for a cell without item
ItemText(tbl, r, c) == IF tbl.items[r][c] = NoItem THEN <<>> ELSE tbl.items[r][c]

\* the lines save_to_file writes, header first, each ending in a newline
SaveLines(hdrs, tbl) ==
    <<JoinWith(hdrs, TAB) \o <<LF>>>> \o
    [r \in 1..tbl.rowCount |->
        JoinWith([c \in 1..tbl.columnCount |-> ItemText(tbl, r, c)], TAB) \o <<LF>>]

RECURSIVE Concat(_)
Concat(ss) == IF ss = <<>> THEN <<>> ELSE Head(ss) \o Concat(Tail(ss))

\* the target's bytes once the first k lines are written (UTF-8)
Written(hdrs, tbl, k) == EncodeUtf8(Concat(SubSeq(SaveLines(hdrs, tbl), 1, k)))

\* -------------------------------------------------------------- mass edit
\* Finite numbers are decimal fractions [m, e] standing for m / 10^e; sp
\* marks the special floats: "inf" (its sign in m) and "nan".  float() is
\* modelled on the texts the model holds: optional surrounding whitespace,
\* an optional sign, then digits with at most one point, or one of the words
\* inf, infinity, nan in any case.
IsDigit(c) == c \in 48..57

RECURSIVE Pow10(_)
Pow10(e) == IF e = 0 THEN 1 ELSE 10 * Pow10(e - 1)

RECURSIVE DigitsValue(_)
DigitsValue(ds) ==
    IF ds = <<>> THEN 0 ELSE DigitsValue(SubSeq(ds, 1, Len(ds) - 1)) * 10 + (ds[Len(ds)] - 48)

\* digits with at most one point and at least one digit
ParseBody(sign, body) ==
    IF /\ \A i \in 1..Len(body) : IsDigit(body[i]) \/ body[i] = 46
       /\ Cardinality({i \in 1..Len(body) : body[i] = 46}) <= 1
       /\ \E i \in 1..Len(body) : IsDigit(body[i])
    THEN [ok |-> TRUE, sp |-> "",
          m |-> sign * DigitsValue(SelectSeq(body, IsDigit)),
          e |-> IF \E i \in 1..Len(body) : body[i] = 46
                THEN Len(body) - (CHOOSE i \in 1..Len(body) : body[i] = 46)
                ELSE 0]
    ELSE [ok |-> FALSE, sp |-> "", m |-> 0, e |-> 0]

\* ASCII lower case
Lower(t) == [i \in 1..Len(t) |-> IF t[i] \in 65..90 THEN t[i] + 32 ELSE t[i]]

Infinity(sign) == [ok |-> TRUE, sp |-> "inf", m |-> sign, e |-> 0]

NaN == [ok |-> TRUE, sp |-> "nan", m |-> 0, e |-> 0]

\* the words float() accepts after the sign, else the digits
ParseWord(sign, word, body) ==
    IF word \in {<<105, 110, 102>>, <<105, 110, 102, 105, 110, 105, 116, 121>>}
    THEN Infinity(sign)
    ELSE IF word = <<110, 97, 110>> THEN NaN
    ELSE ParseBody(sign, body)

ParseSigned(t) ==
    IF t # <<>> /\ t[1] \in {43, 45}
    THEN ParseWord(IF t[1] = 45 THEN -1 ELSE 1, Lower(Tail(t)), Tail(t))
    ELSE ParseWord(1, Lower(t), t)

\* float(text): [ok |-> FALSE] stands for ValueError
ParseFloat(text) == ParseSigned(Strip(text))


Sign(n) == IF n < 0 THEN -1 ELSE IF n > 0 THEN 1 ELSE 0

\* x * y: nan spreads, inf * 0 is nan
Times(x, y) ==
    IF x.sp = "nan" \/ y.sp = "nan" THEN NaN
    ELSE IF x.sp = "inf" \/ y.sp = "inf"
    THEN IF x.m = 0 \/ y.m = 0 THEN NaN ELSE Infinity(Sign(x.m) * Sign(y.m))
    ELSE [ok |-> TRUE, sp |-> "", m |-> x.m * y.m, e |-> x.e + y.e]

PlusAt(x, y, e) ==
    [ok |-> TRUE, sp |-> "",
     m |-> x.m * Pow10(e - x.e) + y.m * Pow10(e - y.e), e |-> e]

\* x + y: nan spreads, inf - inf is nan
Plus(x, y) ==
    IF x.sp = "nan" \/ y.sp = "nan" THEN NaN
    ELSE IF x.sp = "inf" /\ y.sp = "inf"
    THEN IF x.m = y.m THEN x ELSE NaN
    ELSE IF x.sp = "inf" THEN x
    ELSE IF y.sp = "inf" THEN y
    ELSE PlusAt(x, y, IF x.e > y.e THEN x.e ELSE y.e)

\* int(x): towards zero
Truncate(x) ==
    IF x.m >= 0 THEN x.m \div Pow10(x.e) ELSE -((-x.m) \div Pow10(x.e))

RECURSIVE NatText(_)
NatText(n) == IF n < 10 THEN <<48 + n>> ELSE NatText(n \div 10) \o <<48 + (n % 10)>>

\* str(n) for an int
IntText(n) == IF n < 0 THEN <<45>> \o NatText(-n) ELSE NatText(n)

\* a variant that falls back to the first column, to test the sensitivity
\* of AbsentColumnNoUpdate
BadColumnIndex(hdrs, col_name) ==
    IF \E i \in 1..Len(hdrs) : hdrs[i] = col_name
    THEN CHOOSE i \in 1..Len(hdrs) :
            hdrs[i] = col_name /\ \A j \in 1..(i - 1) : hdrs[j] # col_name
    ELSE 1

\* the index (1-based) of the first header equal to col_name, 0 when there
\* is none (col_index stays -1)
ColumnIndex(hdrs, col_name) ==
    IF \E i \in 1..Len(hdrs) : hdrs[i] = col_name
    THEN CHOOSE i \in 1..Len(hdrs) :
            hdrs[i] = col_name /\ \A j \in 1..(i - 1) : hdrs[j] # col_name
    ELSE 0

Operations == {"multiply", "add", "set"}

\* float(item.text()) if item and item.text() else 0
CurrentValue(cell) ==
    IF cell = NoItem \/ cell = <<>> THEN [ok |-> TRUE, sp |-> "", m |-> 0, e |-> 0] ELSE ParseFloat(cell)

\* IEEE doubles for the values whose float arithmetic is not exact.  A
\* natural number is a sequence of limbs in base 2^15, least significant
\* first, without high zero limbs; a double is [neg, q, x] standing for
\* (-1)^neg * q * 2^x with q below 2^53.
Limb == 32768

RECURSIVE BFromInt(_)
BFromInt(n) == IF n = 0 THEN <<>> ELSE <<n % Limb>> \o BFromInt(n \div Limb)

RECURSIVE BTrim(_)
BTrim(a) ==
    IF a # <<>> /\ a[Len(a)] = 0 THEN BTrim(SubSeq(a, 1, Len(a) - 1)) ELSE a

RECURSIVE BAddC(_, _, _)
BAddC(a, b, carry) ==
    IF a = <<>> /\ b = <<>> THEN (IF carry = 0 THEN <<>> ELSE <<carry>>)
    ELSE IF a = <<>> THEN BAddC(<<0>>, b, carry)
    ELSE IF b = <<>> THEN BAddC(a, <<0>>, carry)
    ELSE <<(a[1] + b[1] + carry) % Limb>>
         \o BAddC(Tail(a), Tail(b), (a[1] + b[1] + carry) \div Limb)

BAdd(a, b) == BAddC(a, b, 0)

\* a - b - borrow for a >= b, high zero limbs kept
RECURSIVE BSubB(_, _, _)
BSubB(a, b, borrow) ==
    IF a = <<>> THEN <<>>
    ELSE IF b = <<>> THEN BSubB(a, <<0>>, borrow)
    ELSE <<(a[1] - b[1] - borrow + Limb) % Limb>>
         \o BSubB(Tail(a), Tail(b), IF a[1] - b[1] - borrow < 0 THEN 1 ELSE 0)

BSub(a, b) == BTrim(BSubB(a, b, 0))

\* -1, 0, 1 as a is below, equal to, above b
RECURSIVE BCmp(_, _)
BCmp(a, b) ==
    IF Len(a) # Len(b) THEN (IF Len(a) < Len(b) THEN -1 ELSE 1)
    ELSE IF a = <<>> THEN 0
    ELSE IF a[Len(a)] # b[Len(b)] THEN (IF a[Len(a)] < b[Len(b)] THEN -1 ELSE 1)
    ELSE BCmp(SubSeq(a, 1, Len(a) - 1), SubSeq(b, 1, Len(b) - 1))

\* a * k + carry for k below 2^15
RECURSIVE BMulSmall(_, _, _)
BMulSmall(a, k, carry) ==
    IF a = <<>> THEN BFromInt(carry)
    ELSE <<(a[1] * k + carry) % Limb>>
         \o BMulSmall(Tail(a), k, (a[1] * k + carry) \div Limb)

RECURSIVE BMul(_, _)
BMul(a, b) ==
    IF a = <<>> \/ b = <<>> THEN <<>>
    ELSE BTrim(BAdd(BMulSmall(a, b[1], 0), <<0>> \o BMul(a, Tail(b))))

\* a \div k and a % k for k below 2^15, q with high zero limbs kept
RECURSIVE BDivSmall(_, _)
BDivStep(low, hi, k) ==
    [q |-> <<(hi.r * Limb + low) \div k>> \o hi.q, r |-> (hi.r * Limb + low) % k]

BDivSmall(a, k) ==
    IF a = <<>> THEN [q |-> <<>>, r |-> 0]
    ELSE BDivStep(a[1], BDivSmall(Tail(a), k), k)

RECURSIVE Pow2(_)
Pow2(n) == IF n = 0 THEN 1 ELSE 2 * Pow2(n - 1)


\* a * 2^n
BShl(a, n) ==
    IF a = <<>> THEN <<>>
    ELSE BTrim([i \in 1..(n \div 15) |-> 0] \o BMulSmall(a, Pow2(n % 15), 0))

\* a \div 2^n
BShr(a, n) ==
    IF n \div 15 >= Len(a) THEN <<>>
    ELSE BTrim(BDivSmall(SubSeq(a, n \div 15 + 1, Len(a)), Pow2(n % 15)).q)

RECURSIVE BitLen(_)
BitLen(n) == IF n = 0 THEN 0 ELSE 1 + BitLen(n \div 2)

BBitLen(a) == IF a = <<>> THEN 0 ELSE (Len(a) - 1) * 15 + BitLen(a[Len(a)])


\* q with the k bits dropped from p rounded in: to nearest, ties to even
RoundUp(q, c) == IF c > 0 \/ (c = 0 /\ q # <<>> /\ q[1] % 2 = 1) THEN BAdd(q, <<1>>) ELSE q

Rounded(p, q, k) == RoundUp(q, BCmp(BSub(p, BShl(q, k)), BShl(<<1>>, k - 1)))

\* the mantissa after rounding reached 2^53
Renorm(neg, q, x) ==
    IF BBitLen(q) > 53 THEN [neg |-> neg, q |-> BShr(q, 1), x |-> x + 1]
    ELSE [neg |-> neg, q |-> q, x |-> x]

RoundBits(neg, p, x, k) == Renorm(neg, Rounded(p, BShr(p, k), k), x + k)

\* the double nearest to p * 2^x
RoundTo53(neg, p, x) ==
    IF BBitLen(p) <= 53 THEN [neg |-> neg, q |-> p, x |-> x]
    ELSE RoundBits(neg, p, x, BBitLen(p) - 53)

\* the quotient with a low bit that tells whether the division left a rest
Sticky(d) == BAdd(BShl(BTrim(d.q), 1), IF d.r = 0 THEN <<>> ELSE <<1>>)

\* float() of the decimal x = m / 10^e, e up to 4: m * 2^70 / 10^e has more
\* than 54 bits, so one rounding gives the nearest double
ToDouble(x) ==
    IF x.e = 0 THEN [neg |-> x.m < 0, q |-> BFromInt(IF x.m < 0 THEN -x.m ELSE x.m), x |-> 0]
    ELSE RoundTo53(x.m < 0,
                   Sticky(BDivSmall(BShl(BFromInt(IF x.m < 0 THEN -x.m ELSE x.m), 70),
                                    [i \in 0..4 |-> Pow10(i)][x.e])),
                   -71)

DMul(a, b) == RoundTo53(a.neg # b.neg, BMul(a.q, b.q), a.x + b.x)

\* the sum of p and q, both multiples of 2^x
DSum(aneg, p, bneg, q, x) ==
    IF aneg = bneg THEN RoundTo53(aneg, BAdd(p, q), x)
    ELSE IF BCmp(p, q) >= 0 THEN RoundTo53(aneg, BSub(p, q), x)
    ELSE RoundTo53(bneg, BSub(q, p), x)

DAddAt(a, b, x) == DSum(a.neg, BShl(a.q, a.x - x), b.neg, BShl(b.q, b.x - x), x)

DAdd(a, b) == DAddAt(a, b, IF a.x < b.x THEN a.x ELSE b.x)

RECURSIVE BDigits(_)
BDigitsStep(d) == BDigits(BTrim(d.q)) \o <<48 + d.r>>

BDigits(a) == IF a = <<>> THEN <<>> ELSE BDigitsStep(BDivSmall(a, 10))

BText(neg, a) == IF a = <<>> THEN <<48>> ELSE (IF neg THEN <<45>> ELSE <<>>) \o BDigits(a)

\* str(int(d)) for a double d
DoubleText(d) == BText(d.neg, IF d.x >= 0 THEN BShl(d.q, d.x) ELSE BShr(d.q, -d.x))

\* a decimal that is a double with a short mantissa: arithmetic on two of
\* them is exact, in doubles as in decimals
RECURSIVE Pow5(_)
Pow5(e) == IF e = 0 THEN 1 ELSE 5 * Pow5(e - 1)

Small(x) == x.e <= 4 /\ x.m % Pow5(x.e) = 0 /\ x.m > -Limb /\ x.m < Limb

Exactly(x, y) == x.sp # "" \/ y.sp # "" \/ (Small(x) /\ Small(y))

\* int(inf) raises OverflowError, which apply_mass_changes does not catch
Raised == <<-3>>

\* str(int(new_val)): int(nan) raises ValueError, which skips the application
NewText(new_val) ==
    IF new_val.sp = "nan" THEN NoItem
    ELSE IF new_val.sp = "inf" THEN Raised
    ELSE IntText(Truncate(new_val))

\* the new cell text for the current value cur and the operand v; NoItem
\* when a ValueError or an unknown operation skips the application, Raised
\* when an OverflowError leaves the handler
Computed(cur, v, op) ==
    IF ~cur.ok THEN NoItem
    ELSE IF op \notin Operations \/ ~v.ok THEN NoItem
    ELSE IF op = "multiply"
    THEN IF Exactly(cur, v) THEN NewText(Times(cur, v))
         ELSE DoubleText(DMul(ToDouble(cur), ToDouble(v)))
    ELSE IF op = "add"
    THEN IF Exactly(cur, v) THEN NewText(Plus(cur, v))
         ELSE DoubleText(DAdd(ToDouble(cur), ToDouble(v)))
    ELSE IF Exactly(v, v) THEN NewText(v)
    ELSE DoubleText(ToDouble(v))

\* one (row, spec) application on the items of a row, the column found at
\* c: the new cell text, or NoItem when the application is skipped
NewCell(c, cells, change) ==
    IF c = 0 THEN NoItem
    ELSE Computed(CurrentValue(cells[c]), ParseFloat(change.value), change.op)

Counted(r, c) == [r EXCEPT !.n = @ + 1, !.cols = @ \cup {c}]

\* the inner loop of apply_mass_changes over the specs, for one row:
\* [cells, n, cols, raised] with n the updates made, cols the columns they
\* hit, and raised telling that an exception ended the loop
RECURSIVE ApplyToRow(_, _, _)
RECURSIVE ApplyChange(_, _, _, _, _)
ApplyChange(hdrs, cells, changes, c, new) ==
    IF new = NoItem THEN ApplyToRow(hdrs, cells, Tail(changes))
    ELSE IF new = Raised THEN [cells |-> cells, n |-> 0, cols |-> {}, raised |-> TRUE]
    ELSE Counted(ApplyToRow(hdrs, [cells EXCEPT ![c] = new], Tail(changes)), c)

ApplyToRow(hdrs, cells, changes) ==
    IF changes = <<>> THEN [cells |-> cells, n |-> 0, cols |-> {}, raised |-> FALSE]
    ELSE ApplyChange(hdrs, cells, changes,
                     ColumnIndex(hdrs, Head(changes).col),
                     NewCell(ColumnIndex(hdrs, Head(changes).col), cells, Head(changes)))

RECURSIVE SumOver(_, _)
SumOver(f, S) ==
    IF S = {} THEN 0
    ELSE LET x == CHOOSE y \in S : TRUE IN f[x] + SumOver(f, S \ {x})

\* rows_to_change: the selected rows, or every row when none is selected
RowsToChange(tbl, selected) == IF selected = {} THEN 1..tbl.rowCount ELSE selected

\* the rows the loop gets to: all of rows, or, when a row raises, the rows
\* up to the first that does (the rows are taken in ascending order)
RowsDone(rows, done) ==
    {r \in rows : \A q \in rows : q < r => ~done[q].raised}

MassResult(tbl, rows, done) ==
    [table |-> [tbl EXCEPT !.items =
                  [r \in 1..tbl.rowCount |->
                      IF r \in rows THEN done[r].cells ELSE tbl.items[r]]],
     changes_made |-> SumOver([r \in rows |-> done[r].n], rows),
     updated |-> {cell \in rows \X (1..tbl.columnCount) : cell[2] \in done[cell[1]].cols},
     raised |-> \E r \in rows : done[r].raised]

\* apply_mass_changes on the widget, done holding the inner loop's result
\* for each row of rows_to_change
MassLoop(tbl, rows, done) == MassResult(tbl, RowsDone(rows, done), done)

apply_mass_changes(hdrs, tbl, changes, selected) ==
    MassLoop(tbl, RowsToChange(tbl, selected),
             [r \in RowsToChange(tbl, selected) |->
                 ApplyToRow(hdrs, tbl.items[r], changes)])

\* ------------------------------------------------------------ the files
\* "VNUM\tNAME\tEXP\n1\t??\t100\n2\tWolf\n": a placeholder name, a short row
ProtoPlain ==
    <<86, 78, 85, 77, 9, 78, 65, 77, 69, 9, 69, 88, 80, 10, 49, 9, 63, 63,
    9, 49, 48, 48, 10, 50, 9, 87, 111, 108, 102, 10>>

\* "VNUM\tNAME\tEXP\n3\t\xE4\t7\n": a-umlaut as the single byte E4 (latin1)
ProtoLatin ==
    <<86, 78, 85, 77, 9, 78, 65, 77, 69, 9, 69, 88, 80, 10, 51, 9, 228, 9,
    55, 10>>

\* "ID\tHP\n5\t6\t7\n": no NAME column, a row longer than the header
ProtoWide ==
    <<73, 68, 9, 72, 80, 10, 53, 9, 54, 9, 55, 10>>

\* "ID\n5\t6\n": a one-column header
ProtoOneColumn ==
    <<73, 68, 10, 53, 9, 54, 10>>

\* "VNUM\tNAME\n1\tB\xE4r\n": mob_names.txt in latin1 / cp1252
NamesLatin ==
    <<86, 78, 85, 77, 9, 78, 65, 77, 69, 10, 49, 9, 66, 228, 114, 10>>

\* 'GOLD_MIN', a column the dialog knows and none of the files has
GOLD_MIN == <<71, 79, 76, 68, 95, 77, 73, 78>>

ProtoPath == "mob_proto.txt"
NamesPath == "mob_names.txt"
Paths == {ProtoPath, "other.txt"}

ProtoFiles == {ProtoPlain, ProtoLatin, ProtoWide, ProtoOneColumn}
NameFiles == {Absent, NamesLatin}

\* texts typed into a cell: '' and a-umlaut
EditTexts == {<<>>, <<228>>}

\* The spec lists handed to apply_mass_changes, (column, operation, value):
\* lists the dialog builds (a column of the header, one of its three
\* operations, a value float() accepts) and lists only a direct caller can
\* pass (a column the header lacks, an operation the dialog does not offer).
Change(col, op, value) == [col |-> col, op |-> op, value |-> value]

ChangeLists ==
    { <<>>,
      <<Change(EXP, "multiply", <<52>>)>>,
      <<Change(EXP, "add", <<50, 46, 53>>)>>,
      <<Change(GOLD_MIN, "set", <<51, 48, 48>>)>>,
      <<Change(EXP, "divide", <<52>>)>>,
      <<Change(GOLD_MIN, "add", <<52>>), Change(EXP, "set", <<45, 51>>)>> }

\* ------------------------------------------------------------------ state
VARIABLES
    file_path,      \* self.file_path, "" for None
    headers,        \* self.headers
    data,           \* self.data
    mob_names,      \* self.mob_names
    file_encoding,  \* self.file_encoding, "unset" before the first assignment
    table,          \* self.table, the QTableWidget
    disk,           \* the bytes of each proto file, Absent if none
    names_file,     \* the bytes of mob_names.txt
    backups,        \* <<path, timestamp>> -> bytes of that backup file
    clock,          \* datetime.now() in whole seconds
    ops,            \* handler invocations so far
    event           \* the handler that ran last, its inputs and its outcome

vars == <<file_path, headers, data, mob_names, file_encoding, table, disk,
          names_file, backups, clock, ops, event>>

editor == <<file_path, headers, data, mob_names, file_encoding, table>>

NoBackups == [k \in {} |-> <<>>]

\* f"{path}.backup_{now:%Y%m%d_%H%M%S}": one path per second
BackupPath(path, now) == <<path, now>>

Init ==
    /\ file_path = ""
    /\ headers = <<>>
    /\ data = <<>>
    /\ file_encoding = "unset"
    /\ table = EmptyTable
    /\ \E p \in ProtoFiles :
          disk = [q \in Paths |-> IF q = ProtoPath THEN p ELSE Absent]
    /\ names_file \in NameFiles
    /\ mob_names = load_mob_names(names_file, EmptyNames)
    /\ backups = NoBackups
    /\ clock = 0
    /\ ops = 0
    /\ event = [op |-> "init"]

\* load_file_fast from the parse on: headers, data and file_path are
\* assigned, then setup_table runs
LoadTable(path, hdrs, st) ==
    /\ headers' = hdrs
    /\ data' = st.data
    /\ table' = st.table
    /\ file_path' = path
    /\ event' = [op |-> "load", path |-> path,
                 outcome |-> IF st.raised THEN "error" ELSE "loaded"]

LoadParsed(path, lines, hdrs) ==
    LoadTable(path, hdrs, setup_table(hdrs, ParseData(lines, hdrs), mob_names, table))

\* load_file_fast once the lines are read: the encoding is recorded before
\* the empty-file test
LoadLines(path, r) ==
    /\ file_encoding' = IF r.encoding = "" THEN file_encoding ELSE r.encoding
    /\ IF r.lines = <<>>
       THEN /\ UNCHANGED <<file_path, headers, data, table>>
            /\ event' = [op |-> "load", path |-> path, outcome |-> "empty"]
       ELSE LoadParsed(path, r.lines, ParseHeaders(r.lines))

\* open_file / load_file_fast on a file picked in the open dialog
LoadFileFast(path) ==
    /\ ops < MaxOps
    /\ disk[path] # Absent
    /\ LoadLines(path, ResolveEncoding(disk[path]))
    /\ ops' = ops + 1
    /\ UNCHANGED <<mob_names, disk, names_file, backups, clock>>

\* the clock reaches the next second
Tick ==
    /\ clock < MaxClock
    /\ clock' = clock + 1
    /\ event' = [op |-> "tick"]
    /\ UNCHANGED <<editor, disk, names_file, backups, ops>>

\* save_file / save_to_file.  The path is self.file_path, or one picked in
\* the save dialog when no file is loaded.  fail names the step that raises:
\* the backup copy, the open of the target for writing (nothing is truncated
\* then), or the write after k complete lines.
SaveToFile(path, fail, k) ==
    /\ ops < MaxOps
    /\ path = (IF file_path = "" THEN path ELSE file_path)
    /\ fail = "backup" => disk[path] # Absent
    /\ fail # "write" => k = 0
    /\ backups' = IF disk[path] # Absent /\ fail # "backup"
                  THEN (BackupPath(path, clock) :> disk[path]) @@ backups
                  ELSE backups
    /\ disk' = IF fail \in {"none", "write"}
               THEN [disk EXCEPT ![path] =
                        Written(headers, table,
                                IF fail = "none" THEN table.rowCount + 1 ELSE k)]
               ELSE disk
    /\ ops' = ops + 1
    /\ event' = [op |-> "save", path |-> path, fail |-> fail,
                 outcome |-> IF fail = "none" THEN "saved" ELSE "error"]
    /\ UNCHANGED <<editor, names_file, clock>>

\* the user types text into the cell (r, c) of the grid
EditCell(r, c, text) ==
    /\ ops < MaxOps
    /\ table' = [table EXCEPT !.items[r][c] = text]
    /\ ops' = ops + 1
    /\ event' = [op |-> "edit", row |-> r, col |-> c]
    /\ UNCHANGED <<file_path, headers, data, mob_names, file_encoding, disk,
                   names_file, backups, clock>>

\* the message box apply_mass_changes ends with, none when it raised
MassDone(changes, selected, r) ==
    /\ table' = r.table
    /\ event' = [op |-> "mass", changes |-> changes, selected |-> selected,
                 changes_made |-> r.changes_made, updated |-> r.updated,
                 outcome |-> IF r.raised THEN "raised"
                             ELSE IF r.changes_made > 0 THEN "success"
                             ELSE "no changes"]

\* apply_mass_changes with a spec list and the grid's selection; an empty
\* list returns at once
ApplyMassChanges(changes, selected) ==
    /\ ops < MaxOps
    /\ IF changes = <<>>
       THEN /\ table' = table
            /\ event' = [op |-> "mass", changes |-> changes, selected |-> selected,
                         changes_made |-> 0, updated |-> {}, outcome |-> "none"]
       ELSE MassDone(changes, selected,
                     apply_mass_changes(headers, table, changes, selected))
    /\ ops' = ops + 1
    /\ UNCHANGED <<file_path, headers, data, mob_names, file_encoding, disk,
                   names_file, backups, clock>>

\* fix_mob_names_file after the write: mob_names is cleared and reloaded,
\* setup_table runs again when data is loaded
FixReloaded(fixed, names, st) ==
    /\ names_file' = fixed
    /\ mob_names' = names
    /\ data' = IF data = <<>> THEN data ELSE st.data
    /\ table' = IF data = <<>> THEN table ELSE st.table
    /\ event' = [op |-> "fix",
                 outcome |-> IF data # <<>> /\ st.raised THEN "error" ELSE "fixed"]
    /\ UNCHANGED <<file_path, headers, file_encoding>>

FixReload(fixed, names) ==
    FixReloaded(fixed, names, setup_table(headers, data, names, table))

FixWritten(fixed) ==
    IF fixed = DecodeError
    THEN /\ event' = [op |-> "fix", outcome |-> "unreadable"]
         /\ UNCHANGED <<editor, names_file>>
    ELSE FixReload(fixed, load_mob_names(fixed, EmptyNames))

\* fix_mob_names_file: the backup comes first
FixMobNamesFile ==
    /\ ops < MaxOps
    /\ ops' = ops + 1
    /\ IF names_file = Absent
       THEN /\ event' = [op |-> "fix", outcome |-> "not found"]
            /\ UNCHANGED <<editor, names_file, backups>>
       ELSE /\ backups' = (BackupPath(NamesPath, clock) :> names_file) @@ backups
            /\ FixWritten(FixedNamesFile(names_file))
    /\ UNCHANGED <<disk, clock>>

Next ==
    \/ \E path \in Paths : LoadFileFast(path)
    \/ \E path \in Paths, fail \in {"none", "backup", "open", "write"} :
          \E k \in 0..table.rowCount : SaveToFile(path, fail, k)
    \/ \E r \in 1..table.rowCount, c \in 1..table.columnCount, text \in EditTexts :
          EditCell(r, c, text)
    \/ \E changes \in ChangeLists, selected \in SUBSET (1..table.rowCount) :
          ApplyMassChanges(changes, selected)
    \/ FixMobNamesFile
    \/ Tick

Spec == Init /\ [][Next]_vars

\* ------------------------------------------- the resolver on its own
\* The bytes the files of this specification are made of: 'A', newline, and
\* the bytes of a-umlaut in latin1 (E4) and UTF-8 (C3 A4), of the UTF-8
\* byte order mark (EF BB BF) and of a Hangul syllable in cp949 (C7 D1).
ResolverBytes == {65, 10, 164, 187, 191, 195, 199, 209, 228, 239}

ByteStrings == UNION {[1..n -> ResolverBytes] : n \in 0..MaxBytes}

\* the editor just started, any byte string as the proto file
InitResolver ==
    /\ file_path = ""
    /\ headers = <<>>
    /\ data = <<>>
    /\ file_encoding = "unset"
    /\ table = EmptyTable
    /\ \E b \in ByteStrings :
          disk = [q \in Paths |-> IF q = ProtoPath THEN b ELSE Absent]
    /\ names_file = Absent
    /\ mob_names = EmptyNames
    /\ backups = NoBackups
    /\ clock = 0
    /\ ops = 0
    /\ event = [op |-> "init"]

\* the first load of the proto file
FirstLoad == event.op = "init" /\ LoadFileFast(ProtoPath)

NextResolver == FirstLoad

SpecResolver == InitResolver /\ [][NextResolver]_vars

\* ------------------------------------------- setup_table on its own
Wolf == <<87, 111, 108, 102>>
Baer == <<66, 228, 114>>

SetupHeaders == {<<VNUM, NAME>>, <<VNUM, EXP>>, <<VNUM>>}

\* rows of two fields: an id and a name that is empty, a placeholder or real
SetupRows == {<<id, name>> : id \in {<<49>>, <<50>>}, name \in {<<>>, Q2, Q3, Q4, Wolf}}

\* lookups: none, a real name for id 1, a placeholder text for id 1
SetupLookups == {EmptyNames, <<49>> :> Baer, <<49>> :> Q2}

\* load_file_fast has parsed a file into headers and data and is about to
\* call setup_table
InitSetup ==
    /\ file_path = ProtoPath
    /\ headers \in SetupHeaders
    /\ data \in [1..MaxRows -> SetupRows]
    /\ file_encoding = "cp949"
    /\ table = EmptyTable
    /\ disk = [q \in Paths |-> Absent]
    /\ names_file = Absent
    /\ mob_names \in SetupLookups
    /\ backups = NoBackups
    /\ clock = 0
    /\ ops = 0
    /\ event = [op |-> "parsed"]

SetupDone(st) ==
    /\ data' = st.data
    /\ table' = st.table
    /\ event' = [op |-> "setup", raised |-> st.raised]

\* one run of setup_table on the loaded data, the lookup left alone
SetupTable ==
    /\ ops < MaxSetups
    /\ SetupDone(setup_table(headers, data, mob_names, table))
    /\ ops' = ops + 1
    /\ UNCHANGED <<file_path, headers, mob_names, file_encoding, disk,
                   names_file, backups, clock>>

NextSetup == SetupTable

SpecSetup == InitSetup /\ [][NextSetup]_vars

\* ------------------------------------------------------------ properties
\* the item texts of the grid, '' for a cell without item: what a save writes
TableTexts == [r \in 1..table.rowCount |-> [c \in 1..table.columnCount |-> ItemText(table, r, c)]]

\* C1: every successful save over an existing target adds exactly one backup
\* file, holding the target's bytes from before the save, and leaves every
\* earlier backup as it was; saves within one clock second included.
BackupPerSave ==
    [][(event'.op = "save" /\ event'.outcome = "saved" /\ disk[event'.path] # Absent)
        => /\ \E p \in (DOMAIN backups') \ (DOMAIN backups) :
                /\ DOMAIN backups' = (DOMAIN backups) \cup {p}
                /\ backups'[p] = disk[event'.path]
           /\ \A q \in DOMAIN backups : backups'[q] = backups[q]]_vars

\* C2: once a loaded table is saved, loading the written file gives the
\* header and the rows that were saved (before any name resolution).
SaveLoadRoundTrip ==
    (event.op = "save" /\ event.outcome = "saved" /\ file_path # "")
        => /\ ResolveEncoding(disk[event.path]).lines # <<>>
           /\ ParseHeaders(ResolveEncoding(disk[event.path]).lines) = headers
           /\ ParseData(ResolveEncoding(disk[event.path]).lines, headers) = TableTexts

\* C3: in every reachable state every row of data is as long as the header.
RowsMatchHeader ==
    \A r \in 1..Len(data) : Len(data[r]) = Len(headers)

\* C4: a cell a mass edit has updated still holds the mass-edit result in
\* the grid after a name-file repair that follows.
MassEditSurvivesRepair ==
    [][(event.op = "mass" /\ event'.op = "fix")
        => \A cell \in event.updated :
              table'.items[cell[1]][cell[2]] = table.items[cell[1]][cell[2]]]_vars

\* C5: with NAME as the second header and the lookup unchanged, a second run
\* of setup_table leaves the rows and the grid as the first run left them.
SetupIdempotent ==
    [][(event.op = "setup" /\ event'.op = "setup" /\ Len(headers) >= 2 /\ headers[2] = NAME)
        => (data' = data /\ table' = table)]_vars

\* the three outcomes of name resolution for one row, written out
ExpectedName(id, name) ==
    IF id \in DOMAIN mob_names THEN mob_names[id]
    ELSE IF name \notin {<<>>, <<63, 63>>, <<63, 63, 63>>, <<63, 63, 63, 63>>} THEN name
    ELSE <<77, 111, 98, 32>> \o id

\* rows r of data that setup_table has resolved in each of the three ways
ThreeOutcomes ==
    /\ \E r \in 1..Len(data) : data[r][1] \in DOMAIN mob_names
    /\ \E r \in 1..Len(data) : data[r][1] \notin DOMAIN mob_names /\ data[r][2] = Wolf
    /\ \E r \in 1..Len(data) :
          data[r][1] \notin DOMAIN mob_names /\ data[r][2] = MobPrefix \o data[r][1]

SetupIdempotentWitness ==
    /\ event.op = "setup" /\ ops = 2
    /\ headers = <<VNUM, NAME>>
    /\ ThreeOutcomes

\* C6: when the second header is NAME, setup_table puts in position 1 of
\* every row, and shows in the grid, the lookup's name for the row's id if it
\* has one, else the row's own name if that is not empty and not one of
\* '??', '???', '????', else "Mob " followed by the id; when the second header
\* is not NAME, it changes no row.
ResolvedPerRow ==
    [][event'.op = "setup"
        => IF Len(headers) >= 2 /\ headers[2] = NAME
           THEN /\ Len(data') = Len(data)
                /\ \A r \in 1..Len(data) :
                      /\ data'[r] = [data[r] EXCEPT ![2] = ExpectedName(data[r][1], data[r][2])]
                      /\ table'.items[r][2] = ExpectedName(data[r][1], data[r][2])
           ELSE data' = data]_vars

ResolvedPerRowWitness ==
    /\ event.op = "setup" /\ ops = 1
    /\ headers = <<VNUM, NAME>>
    /\ ThreeOutcomes
    /\ \E r \in 1..Len(data) : data[r][2] = Baer

\* the six candidate encodings of load_file_fast, as a set
SixEncodings == {"cp949", "euc-kr", "utf-8", "utf-8-sig", "latin1", "cp1252"}

\* the text whose encoding under e is b, DecodeError when b encodes no text
\* under e: the utf-8-sig encoding of a text starts with the byte order mark
EncodedText(e, b) ==
    IF e = "utf-8-sig"
    THEN IF Len(b) >= 3 /\ SubSeq(b, 1, 3) = <<239, 187, 191>>
         THEN DecodeUtf8(SubSeq(b, 4, Len(b)))
         ELSE DecodeError
    ELSE Decode(e, b)

\* C7, as stated: whenever the file's bytes are the encoding of a text under
\* one of the six candidates, the resolver returns exactly that text and
\* records an encoding under which the bytes encode that text.
ResolverExact ==
    event.op = "load"
        => \A e \in SixEncodings :
              EncodedText(e, disk[ProtoPath]) # DecodeError
                 => /\ ResolveEncoding(disk[ProtoPath]).text = EncodedText(e, disk[ProtoPath])
                    /\ file_encoding \in SixEncodings
                    /\ EncodedText(file_encoding, disk[ProtoPath])
                          = EncodedText(e, disk[ProtoPath])

\* C7, amended: the resolver returns the decoding of the bytes under the
\* first candidate, in the order cp949, euc-kr, utf-8, utf-8-sig, latin1,
\* cp1252, that decodes them without error, and records that candidate; so a
\* file that decodes as cp949 is returned as its cp949 text, one that does not
\* but decodes as UTF-8 as its UTF-8 text (a leading byte order mark kept),
\* and any other file as its latin1 text.
ResolverFirstSuccess ==
    event.op = "load"
        => IF DecodeCp949(disk[ProtoPath]) # DecodeError
           THEN /\ file_encoding = "cp949"
                /\ ResolveEncoding(disk[ProtoPath]).text = DecodeCp949(disk[ProtoPath])
           ELSE IF DecodeUtf8(disk[ProtoPath]) # DecodeError
           THEN /\ file_encoding = "utf-8"
                /\ ResolveEncoding(disk[ProtoPath]).text = DecodeUtf8(disk[ProtoPath])
           ELSE /\ file_encoding = "latin1"
                /\ ResolveEncoding(disk[ProtoPath]).text = DecodeLatin1(disk[ProtoPath])

\* a file that is not cp949 but is UTF-8 has been resolved
ResolverFirstSuccessWitness ==
    /\ event.op = "load"
    /\ DecodeCp949(disk[ProtoPath]) = DecodeError
    /\ DecodeUtf8(disk[ProtoPath]) # DecodeError
    /\ file_encoding = "utf-8"
    /\ headers # <<>>

\* C8: a mass edit whose specs all name columns that are not in the header
\* updates nothing: the grid is unchanged, zero updates are counted, and the
\* outcome reported is "no changes applied".
AbsentColumnNoUpdate ==
    [][(/\ event'.op = "mass"
        /\ event'.changes # <<>>
        /\ \A i \in 1..Len(event'.changes) :
              \A j \in 1..Len(headers) : headers[j] # event'.changes[i].col)
        => /\ table' = table
           /\ event'.changes_made = 0
           /\ event'.outcome = "no changes"]_vars

\* a mass edit naming only an absent column has run on a loaded table
AbsentColumnNoUpdateWitness ==
    /\ event.op = "mass"
    /\ event.changes # <<>>
    /\ \A i \in 1..Len(event.changes) :
          \A j \in 1..Len(headers) : headers[j] # event.changes[i].col
    /\ table.rowCount > 0
    /\ event.outcome = "no changes"

\* C9: a load that ends with "File is empty" leaves headers, data, the
\* grid, the file path and the recorded encoding as they were.
EmptyLoadKeepsState ==
    [][(event'.op = "load" /\ event'.outcome = "empty") => UNCHANGED editor]_vars

\* C10: a save that ends in an error leaves the target file's bytes as they
\* were before the save.
FailedSaveKeepsTarget ==
    [][(event'.op = "save" /\ event'.outcome = "error")
        => disk'[event'.path] = disk[event'.path]]_vars

\* ------------------------------------------- apply_mass_changes on its own
\* cell texts: '', integers, a word, and the special floats float() accepts
MassCells ==
    {<<>>, <<49, 48, 48>>, <<49, 48, 49>>, <<45, 49, 48, 49>>, <<120>>,
     <<105, 110, 102>>, <<110, 97, 110>>}

\* operands, all accepted by float(): '4', '2.5', '-2.5', '1.15', 'inf'
MassValues ==
    {<<52>>, <<50, 46, 53>>, <<45, 50, 46, 53>>, <<49, 46, 49, 53>>, <<105, 110, 102>>}

\* the header pairs an id with EXP, or is EXP alone over rows of two fields
MassHeaders == {<<VNUM, EXP>>, <<EXP>>}

MassRows(hdrs) ==
    IF Len(hdrs) = 2
    THEN {<<<<49>>, cell>> : cell \in MassCells}
    ELSE {<<cell, <<54>>>> : cell \in MassCells \ {<<>>}}

\* one spec on a present or an absent column, with an operation the dialog
\* offers or not; and lists of two specs
MassLists ==
    {<<Change(col, op, value)>> :
        col \in {EXP, GOLD_MIN},
        op \in {"multiply", "add", "set", "divide"},
        value \in MassValues}
    \cup { <<Change(GOLD_MIN, "set", <<52>>), Change(EXP, "multiply", <<52>>)>>,
           <<Change(EXP, "divide", <<52>>), Change(EXP, "add", <<50, 46, 53>>)>>,
           <<Change(EXP, "set", <<52>>), Change(EXP, "multiply", <<50, 46, 53>>)>> }

\* the file a header and rows were loaded from
FileOf(hdrs, rows) ==
    EncodeUtf8(JoinWith(hdrs, TAB) \o <<LF>>
               \o Concat([r \in 1..Len(rows) |-> JoinWith(rows[r], TAB) \o <<LF>>]))

MassLoaded(hdrs, st) ==
    /\ headers = hdrs
    /\ data = st.data
    /\ table = st.table
    /\ event = [op |-> "load", path |-> ProtoPath,
                outcome |-> IF st.raised THEN "error" ELSE "loaded"]

\* load_file_fast has loaded a table with an EXP column
InitMass ==
    /\ file_path = ProtoPath
    /\ file_encoding = "cp949"
    /\ \E hdrs \in MassHeaders : \E rows \in [1..MaxMassRows -> MassRows(hdrs)] :
          /\ MassLoaded(hdrs, setup_table(hdrs, rows, EmptyNames, EmptyTable))
          /\ disk = [q \in Paths |-> IF q = ProtoPath THEN FileOf(hdrs, rows) ELSE Absent]
    /\ names_file = Absent
    /\ mob_names = EmptyNames
    /\ backups = NoBackups
    /\ clock = 0
    /\ ops = 0

\* the first mass edit on the loaded table
FirstMassEdit(changes, selected) ==
    event.op = "load" /\ ApplyMassChanges(changes, selected)

NextMass ==
    \E changes \in MassLists, selected \in SUBSET (1..table.rowCount) :
        FirstMassEdit(changes, selected)

SpecMass == InitMass /\ [][NextMass]_vars

\* the first column (1-based) whose header is col, 0 if there is none
FirstColumn(col) ==
    IF \E j \in 1..Len(headers) : headers[j] = col
    THEN CHOOSE j \in 1..Len(headers) :
            headers[j] = col /\ \A k \in 1..(j - 1) : headers[k] # col
    ELSE 0

\* the cell is missing, empty, or a text float() parses
CellCounts(cell) == cell \in {NoItem, <<>>} \/ ParseFloat(cell).ok

\* the (row, spec) applications C11 says are not skipped
NotSkipped(rows, changes) ==
    {a \in rows \X (1..Len(changes)) :
        /\ FirstColumn(changes[a[2]].col) # 0
        /\ changes[a[2]].op \in {"multiply", "add", "set"}
        /\ CellCounts(table.items[a[1]][FirstColumn(changes[a[2]].col)])}

MassCountIs(e, n) ==
    /\ e.outcome # "raised"
    /\ e.changes_made = n
    /\ e.outcome = (IF n = 0 THEN "no changes" ELSE "success")

\* C11: a mass edit runs through the whole batch, skipping a (row, spec)
\* application exactly when the column is absent, the cell is non-empty and
\* not numeric, or the operation is not one of multiply, add, set (an empty
\* or missing cell counting as 0); the count it reports is the number of
\* applications not skipped, 0 ending in "no changes applied" and more in
\* the success outcome.
MassSkipRule ==
    [][(event'.op = "mass" /\ event'.changes # <<>>)
        => MassCountIs(event',
              Cardinality(NotSkipped(IF event'.selected = {} THEN 1..table.rowCount
                                     ELSE event'.selected,
                                     event'.changes)))]_vars

\* the integer part, towards zero, of the decimal m / 10^e, as text
DecimalText(m, e) ==
    IF m >= 0 THEN IntText(m \div Pow10(e)) ELSE IntText(-((-m) \div Pow10(e)))

\* c * v, c + v and v in decimal arithmetic, truncated, for the decimals
\* c and v; an empty or missing cell is 0
TruncatedExact(c, v, op) ==
    IF op = "multiply" THEN DecimalText(c.m * v.m, c.e + v.e)
    ELSE IF op = "add"
    THEN DecimalText(c.m * Pow10(v.e) + v.m * Pow10(c.e), c.e + v.e)
    ELSE DecimalText(v.m, v.e)

\* C12: a cell a single-spec mass edit has written holds the decimal integer
\* got by truncating towards zero c * v for multiply, c + v for add and v
\* for set, c being the cell's number before (0 for an empty or missing
\* cell) and v the operand.
MassArithmetic ==
    [][(event'.op = "mass" /\ Len(event'.changes) = 1)
        => \A cell \in event'.updated :
              table'.items[cell[1]][cell[2]] =
                 TruncatedExact(CurrentValue(table.items[cell[1]][cell[2]]),
                                ParseFloat(event'.changes[1].value),
                                event'.changes[1].op)]_vars

\* C13: a name-file repair that directly follows a completed repair leaves
\* the bytes of mob_names.txt and the lookup as the first repair left them.
RepairIdempotent ==
    [][(event.op = "fix" /\ event.outcome = "fixed" /\ event'.op = "fix")
        => (names_file' = names_file /\ mob_names' = mob_names)]_vars

====
